---- MODULE Spec2Model ----
(***************************************************************************)
(* Points-and-scoring accounting of the art battle application.            *)
(*                                                                         *)
(* The entity store (tables, unique constraints, row-level policies,       *)
(* triggers and the stored procedures) is modelled from the SQL            *)
(* migrations; the handlers are modelled from the React components that    *)
(* issue the queries.  One event is instantiated: every row that carries   *)
(* an event_id carries the id of that event.                               *)
(***************************************************************************)
EXTENDS Integers, Sequences, FiniteSets, TLC

\* ---------------------------------------------------------------- bounds
NumUsers == 2
MaxArtworks == 2
MaxFights == 2
MaxTime == 2
MaxOps == 4

Users == 1..NumUsers
ArtIds == 1..MaxArtworks
Types == {"like", "attack"}

\* ------------------------------------------------------- program constants
UploadReward == 5
LegacyUploadReward == 3
LikeReward == 1
AttackReward == 3
FightTriggerReward == 2

VARIABLES
    now,                  \* wall clock read by now()
    events,               \* the events row: status, start_time, end_time
    event_participants,   \* user -> team, or "none" when no row exists
    artworks,             \* sequence of artworks rows, the id is the index
    artwork_interactions, \* set of <<artwork_id, user_id, interaction_type>>
    fight_artworks,       \* set of [id, attacker_id, target_artwork_id]
    user_points,          \* user -> user_points row of the event
    interactions,         \* per signed-in user: the gallery's `interactions` state
    artwork_teams,        \* per signed-in user: the owner's team the gallery's
                          \* `artworks` state holds for each artwork
    participants,         \* per signed-in user: EventDetail's `participants` state
    pc,                   \* per user: the await a handler running step by step is at
    loc,                  \* per user: what that handler has read so far
    awarded,              \* per user: the deltas completed step-by-step handlers applied
    last,                 \* the last handler that ran and what it reported
    pre,                  \* the store as it was when that handler started
    first,                \* the store before the first of a run of identical calls
    run,                  \* length of the run of identical consecutive calls
    ops                   \* number of handler calls so far

store == <<event_participants, artworks, artwork_interactions, fight_artworks, user_points>>
session == <<pc, loc, awarded>>
vars == <<now, events, event_participants, artworks, artwork_interactions,
          fight_artworks, user_points, interactions, artwork_teams, participants,
          pc, loc, awarded, last, pre, first, run, ops>>

\* ------------------------------------------------------------ entity store

\* events.midway_time is nullable.
NULL == "null"

\* user_points: the four point columns all default to 0.
NoRow == [present |-> FALSE, artwork_points |-> 0, like_points |-> 0,
          attack_points |-> 0, points_total |-> 0]

PointsRow(ap, lp, kp, total) ==
    [present |-> TRUE, artwork_points |-> ap, like_points |-> lp,
     attack_points |-> kp, points_total |-> total]

\* artworks: likes_count and attacks_count default to 0.
NewArtwork(u) == [user_id |-> u, likes_count |-> 0, attacks_count |-> 0]

\* Row-level security of artwork_interactions: the commands that have a policy.
InteractionPolicies == {"SELECT", "INSERT"}

\* Faulty variant: the unique constraint is missing.
InteractionConflict_NoConstraint(rows, a, u, t) == FALSE

\* UNIQUE(artwork_id, user_id, interaction_type)
InteractionConflict(rows, a, u, t) == <<a, u, t>> \in rows

\* DELETE ... WHERE artwork_id = a AND user_id = u AND interaction_type = t,
\* run as the signed-in user: only rows a DELETE policy admits are removed and
\* the statement reports no error when none is.
DeleteInteraction(rows, a, u, t) ==
    IF "DELETE" \in InteractionPolicies THEN rows \ {<<a, u, t>>} ELSE rows

\* Faulty variant: the trigger bumps the wrong counter.
update_artwork_counts_Swapped(arts, a, t) ==
    IF t = "like"
    THEN [arts EXCEPT ![a].attacks_count = @ + 1]
    ELSE [arts EXCEPT ![a].likes_count = @ + 1]

\* Faulty variant: the counter is written from a value read before another
\* insert was counted, instead of being incremented in place.
update_artwork_counts_Overwrite(arts, a, t) ==
    IF t = "like"
    THEN [arts EXCEPT ![a].likes_count = 1]
    ELSE [arts EXCEPT ![a].attacks_count = 1]

\* Faulty variant: attack rows are not counted.
update_artwork_counts_LikesOnly(arts, a, t) ==
    IF t = "like" THEN [arts EXCEPT ![a].likes_count = @ + 1] ELSE arts

\* Trigger trigger_update_artwork_counts, AFTER INSERT on artwork_interactions.
update_artwork_counts(arts, a, t) ==
    IF t = "like"
    THEN [arts EXCEPT ![a].likes_count = @ + 1]
    ELSE [arts EXCEPT ![a].attacks_count = @ + 1]

\* Stored procedure update_user_points: additive upsert.
update_user_points(up, u, ap, lp, kp) ==
    IF ~up[u].present
    THEN [up EXCEPT ![u] = PointsRow(ap, lp, kp, ap + lp + kp)]
    ELSE [up EXCEPT ![u] = PointsRow(
            up[u].artwork_points + ap,
            up[u].like_points + lp,
            up[u].attack_points + kp,
            up[u].artwork_points + up[u].like_points + up[u].attack_points
              + ap + lp + kp)]

\* Trigger on_fight_artwork_created, AFTER INSERT on fight_artworks.
update_fight_points(up, attacker) ==
    IF ~up[attacker].present
    THEN [up EXCEPT ![attacker] = PointsRow(0, 0, FightTriggerReward, FightTriggerReward)]
    ELSE [up EXCEPT ![attacker].attack_points = @ + FightTriggerReward,
                    ![attacker].points_total = @ + FightTriggerReward]

\* .select(...).eq('user_id', u).eq('event_id', e).single(): the row, or null.
SelectPoints(up, u) == up[u]

\* .upsert({like_points, points_total}, onConflict: 'user_id,event_id'):
\* the supplied columns are written, the others keep their value (or default).
UpsertLikePoints(up, u, lp, total) ==
    IF ~up[u].present
    THEN [up EXCEPT ![u] = PointsRow(0, lp, 0, total)]
    ELSE [up EXCEPT ![u].like_points = lp, ![u].points_total = total]

\* .upsert({artwork_points, points_total}, onConflict: 'user_id,event_id')
UpsertArtworkPoints(up, u, ap, total) ==
    IF ~up[u].present
    THEN [up EXCEPT ![u] = PointsRow(ap, 0, 0, total)]
    ELSE [up EXCEPT ![u].artwork_points = ap, ![u].points_total = total]

\* .update({like_points, points_total}).eq('user_id', u).eq('event_id', e)
UpdateLikePoints(up, u, lp, total) ==
    IF up[u].present
    THEN [up EXCEPT ![u].like_points = lp, ![u].points_total = total]
    ELSE up

\* Faulty variant: no floor at zero.
Max0_NoFloor(x) == x

\* Math.max(0, x)
Max0(x) == IF x < 0 THEN 0 ELSE x

\* ------------------------------------------------------------ bookkeeping

Snapshot ==
    [status |-> events.status,
     now |-> now,
     event_participants |-> event_participants,
     artworks |-> artworks,
     artwork_interactions |-> artwork_interactions,
     fight_artworks |-> fight_artworks,
     user_points |-> user_points,
     interactions |-> interactions]

\* Every handler call is recorded: who called what, what the user was told,
\* and the store the call started from.
Record(op, u, a, outcome) ==
    /\ ops < MaxOps
    /\ ops' = ops + 1
    /\ last' = [op |-> op, user |-> u, art |-> a, outcome |-> outcome]
    /\ pre' = Snapshot
    /\ IF run > 0 /\ last.op = op /\ last.user = u /\ last.art = a
       THEN run' = run + 1 /\ first' = first
       ELSE run' = 1 /\ first' = Snapshot
    /\ UNCHANGED session

Report(op, u, a, outcome) ==
    /\ Record(op, u, a, outcome)
    /\ UNCHANGED participants

\* SELECT artwork_id, interaction_type FROM artwork_interactions WHERE user_id = u
OwnInteractions(rows, u) == {<<r[1], r[3]>> : r \in {x \in rows : x[2] = u}}

NoLocals == [art |-> 0, branch |-> "none", existingPoints |-> NoRow]
NoDeltas == [artwork_points |-> 0, like_points |-> 0]

\* EventGallery.fetchArtworks: each artwork with its owner's team.
OwnerTeams(arts, parts) == [a \in 1..Len(arts) |-> parts[arts[a].user_id]]

\* A new artwork enters every open gallery with the team its owner has then.
ShowArtwork(teams, ownerTeam) == [v \in Users |-> Append(teams[v], ownerTeam)]

\* Faulty variant: event_participants without UNIQUE(event_id, user_id).
ParticipantConflict_NoConstraint(parts, u) == FALSE

\* UNIQUE(event_id, user_id) on event_participants: an insert for a user who
\* has a row of the event is rejected.
ParticipantConflict(parts, u) == parts[u] # "none"

\* Faulty variant: every participant is counted, whatever the team.
TeamCount_AnyTeam(parts, t) == Cardinality({u \in Users : parts[u] # "none"})

\* participants.filter(p => p.team === t).length
TeamCount(parts, t) == Cardinality({u \in Users : parts[u] = t})

\* ----------------------------------------------------------------- Init
Init ==
    /\ now = 0
    /\ events = [status |-> "upcoming", start_time |-> 1, end_time |-> 2,
                 midway_time |-> NULL, midway_theme |-> NULL]
    /\ event_participants = [u \in Users |-> "none"]
    /\ artworks = <<>>
    /\ artwork_interactions = {}
    /\ fight_artworks = {}
    /\ user_points = [u \in Users |-> NoRow]
    /\ interactions = [u \in Users |-> {}]
    /\ artwork_teams = [u \in Users |-> <<>>]
    /\ participants = [u \in Users |-> [v \in Users |-> "none"]]
    /\ pc = [u \in Users |-> "idle"]
    /\ loc = [u \in Users |-> NoLocals]
    /\ awarded = [u \in Users |-> NoDeltas]
    /\ last = [op |-> "none", user |-> 0, art |-> 0, outcome |-> "none"]
    /\ pre = Snapshot
    /\ first = Snapshot
    /\ run = 0
    /\ ops = 0

\* --------------------------------------------------------------- handlers

\* Events.joinEvent
joinEvent(u) ==
    LET teamACounts == TeamCount(event_participants, "A")
        teamBCounts == TeamCount(event_participants, "B")
        assignedTeam == IF teamACounts <= teamBCounts THEN "A" ELSE "B"
    IN  /\ IF ParticipantConflict(event_participants, u)
           THEN /\ Report("joinEvent", u, 0, "Error joining event")
                /\ UNCHANGED event_participants
           ELSE /\ event_participants' = [event_participants EXCEPT ![u] = assignedTeam]
                /\ Report("joinEvent", u, 0, "Successfully joined event!")
        /\ UNCHANGED <<now, events, artworks, artwork_interactions, fight_artworks,
                       user_points, interactions, artwork_teams>>

\* EventGallery.fetchInteractions / Gallery.fetchInteractions (on mount)
fetchInteractions(u) ==
    /\ interactions[u] # OwnInteractions(artwork_interactions, u)
    /\ interactions' = [interactions EXCEPT ![u] = OwnInteractions(artwork_interactions, u)]
    /\ run' = 0
    /\ UNCHANGED <<now, events, event_participants, artworks, artwork_interactions,
                   fight_artworks, user_points, artwork_teams, participants, session,
                   last, pre, first, ops>>

\* EventDetail.canUploadArtwork
canUploadArtwork(event, userParticipation, t) ==
    IF userParticipation = "none" THEN FALSE
    ELSE IF event.status # "ongoing" THEN FALSE
    ELSE IF event.midway_time # NULL THEN t >= event.midway_time
    ELSE TRUE

\* EventGallery.fetchArtworks (on mount)
fetchArtworks(u) ==
    /\ artwork_teams[u] # OwnerTeams(artworks, event_participants)
    /\ artwork_teams' = [artwork_teams EXCEPT ![u] = OwnerTeams(artworks, event_participants)]
    /\ run' = 0
    /\ UNCHANGED <<now, events, event_participants, artworks, artwork_interactions,
                   fight_artworks, user_points, interactions, participants, session,
                   last, pre, first, ops>>

\* ArtworkUpload.uploadArtwork: insert the artworks row, then the award step.
uploadArtwork(u) ==
    /\ Len(artworks) < MaxArtworks
    /\ artworks' = Append(artworks, NewArtwork(u))
    /\ artwork_teams' = ShowArtwork(artwork_teams, event_participants[u])
    /\ user_points' = update_user_points(user_points, u, UploadReward, 0, 0)
    /\ Report("uploadArtwork", u, Len(artworks) + 1, "Artwork uploaded successfully!")
    /\ UNCHANGED <<now, events, event_participants, artwork_interactions,
                   fight_artworks, interactions>>

\* userParticipant?.team && artworkTeam && userParticipant.team === artworkTeam
SameTeam(userTeam, artworkTeam) ==
    /\ userTeam # "none"
    /\ artworkTeam # "none"
    /\ userTeam = artworkTeam

\* EventGallery.handleLikeToggle, unlike branch
Unlike(u, a) ==
    LET owner == artworks[a].user_id
        existingPoints == SelectPoints(user_points, owner)
    IN  /\ artwork_interactions' = DeleteInteraction(artwork_interactions, a, u, "like")
        /\ interactions' = [interactions EXCEPT ![u] = @ \ {<<a, "like">>}]
        /\ user_points' = IF existingPoints.present
                          THEN UpdateLikePoints(user_points, owner,
                                   Max0(existingPoints.like_points - LikeReward),
                                   Max0(existingPoints.points_total - LikeReward))
                          ELSE user_points
        /\ Report("handleLikeToggle", u, a, "Unliked")
        /\ UNCHANGED artworks

\* EventGallery.handleLikeToggle, like branch
Like(u, a) ==
    LET owner == artworks[a].user_id
        existingPoints == SelectPoints(user_points, owner)
    IN  IF InteractionConflict(artwork_interactions, a, u, "like")
        THEN /\ Report("handleLikeToggle", u, a, "Error")
             /\ UNCHANGED <<artworks, artwork_interactions, interactions, user_points>>
        ELSE /\ artwork_interactions' = artwork_interactions \cup {<<a, u, "like">>}
             /\ artworks' = update_artwork_counts(artworks, a, "like")
             /\ interactions' = [interactions EXCEPT ![u] = @ \cup {<<a, "like">>}]
             /\ user_points' = UpsertLikePoints(user_points, owner,
                                   existingPoints.like_points + LikeReward,
                                   existingPoints.points_total + LikeReward)
             /\ Report("handleLikeToggle", u, a, "Congratulations!")

\* EventGallery.handleLikeToggle
handleLikeToggle(u, a) ==
    /\ a \in 1..Len(artworks)
    /\ IF artworks[a].user_id = u \/ SameTeam(event_participants[u], artwork_teams[u][a])
       THEN /\ Report("handleLikeToggle", u, a, "Not allowed")
            /\ UNCHANGED <<artworks, artwork_interactions, interactions, user_points>>
       ELSE IF <<a, "like">> \in interactions[u]
            THEN Unlike(u, a)
            ELSE Like(u, a)
    /\ UNCHANGED <<now, events, event_participants, fight_artworks, artwork_teams>>

\* Gallery.handleInteraction
handleInteraction(u, a, t) ==
    /\ a \in 1..Len(artworks)
    /\ IF <<a, t>> \in interactions[u]
       THEN /\ Report("handleInteraction", u, a, "Already interacted")
            /\ UNCHANGED <<artworks, artwork_interactions, interactions>>
       ELSE IF InteractionConflict(artwork_interactions, a, u, t)
            THEN /\ Report("handleInteraction", u, a, "Error")
                 /\ UNCHANGED <<artworks, artwork_interactions, interactions>>
            ELSE /\ artwork_interactions' = artwork_interactions \cup {<<a, u, t>>}
                 /\ artworks' = update_artwork_counts(artworks, a, t)
                 /\ interactions' = [interactions EXCEPT ![u] = @ \cup {<<a, t>>}]
                 /\ Report("handleInteraction", u, a, "Success!")
    /\ UNCHANGED <<now, events, event_participants, fight_artworks, user_points,
                   artwork_teams>>

\* AttackDialog.handleAttack
AttackDialog_handleAttack(u, a) ==
    /\ a \in 1..Len(artworks)
    /\ IF InteractionConflict(artwork_interactions, a, u, "attack")
       THEN /\ Report("AttackDialog.handleAttack", u, a, "Attack failed")
            /\ UNCHANGED <<artworks, artwork_interactions, user_points>>
       ELSE /\ artwork_interactions' = artwork_interactions \cup {<<a, u, "attack">>}
            /\ artworks' = update_artwork_counts(artworks, a, "attack")
            /\ user_points' = update_user_points(user_points, u, 0, 0, AttackReward)
            /\ Report("AttackDialog.handleAttack", u, a, "Attack successful!")
    /\ UNCHANGED <<now, events, event_participants, fight_artworks, interactions,
                   artwork_teams>>

\* EventGallery.hasInteracted
hasInteracted(u, a, t) == <<a, t>> \in interactions[u]

\* EventGallery.handleAttackClick: "open" when the attack dialog is opened.
handleAttackClick(u, a) ==
    IF artworks[a].user_id = u \/ SameTeam(event_participants[u], artwork_teams[u][a])
    THEN "Not allowed"
    ELSE IF hasInteracted(u, a, "attack")
         THEN "Already attacked"
         ELSE "open"

\* EventGallery.handleAttackClick, then AttackArtworkDialog.handleAttack on the
\* dialog it opened, then EventGallery.handleAttackSuccess.
AttackArtworkDialog_handleAttack(u, a) ==
    /\ a \in 1..Len(artworks)
    /\ Cardinality(fight_artworks) < MaxFights
    /\ IF handleAttackClick(u, a) # "open"
       THEN /\ Report("AttackArtworkDialog.handleAttack", u, a, handleAttackClick(u, a))
            /\ UNCHANGED <<fight_artworks, user_points, interactions, artwork_teams>>
       ELSE /\ fight_artworks' = fight_artworks \cup
                  {[id |-> Cardinality(fight_artworks) + 1, attacker_id |-> u,
                    target_artwork_id |-> a]}
            /\ user_points' = update_user_points(
                                  update_fight_points(user_points, u), u, 0, 0, AttackReward)
            /\ interactions' = [interactions EXCEPT
                                   ![u] = OwnInteractions(artwork_interactions, u)]
            /\ artwork_teams' = [artwork_teams EXCEPT
                                    ![u] = OwnerTeams(artworks, event_participants)]
            /\ Report("AttackArtworkDialog.handleAttack", u, a, "Congratulations!")
    /\ UNCHANGED <<now, events, event_participants, artworks, artwork_interactions>>

Next ==
    \/ \E u \in Users : joinEvent(u)
    \/ \E u \in Users : fetchInteractions(u)
    \/ \E u \in Users : fetchArtworks(u)
    \/ \E u \in Users : uploadArtwork(u)
    \/ \E u \in Users, a \in ArtIds : handleLikeToggle(u, a)
    \/ \E u \in Users, a \in ArtIds, t \in Types : handleInteraction(u, a, t)
    \/ \E u \in Users, a \in ArtIds : AttackDialog_handleAttack(u, a)
    \/ \E u \in Users, a \in ArtIds : AttackArtworkDialog_handleAttack(u, a)

Spec == Init /\ [][Next]_vars

\* ------------------------------------------------- earlier upload revisions

\* uploadArtwork of the upsert-based ArtworkUpload revision: insert the artworks
\* row, then upsert {artwork_points: 3, points_total: 3}.
Navbar_uploadArtwork(u) ==
    /\ Len(artworks) < MaxArtworks
    /\ artworks' = Append(artworks, NewArtwork(u))
    /\ artwork_teams' = ShowArtwork(artwork_teams, event_participants[u])
    /\ user_points' = UpsertArtworkPoints(user_points, u, LegacyUploadReward,
                                          LegacyUploadReward)
    /\ Report("Navbar.uploadArtwork", u, Len(artworks) + 1,
              "Artwork uploaded successfully!")
    /\ UNCHANGED <<now, events, event_participants, artwork_interactions,
                   fight_artworks, interactions>>

\* EventGallery.handleUploadSuccess: read the uploader's row, upsert it with 3 more.
handleUploadSuccess(u) ==
    LET currentPoints == SelectPoints(user_points, u)
    IN  /\ \E a \in 1..Len(artworks) : artworks[a].user_id = u
        /\ user_points' = UpsertArtworkPoints(user_points, u,
                              currentPoints.artwork_points + LegacyUploadReward,
                              currentPoints.points_total + LegacyUploadReward)
        /\ Report("handleUploadSuccess", u, 0, "Artwork uploaded!")
        /\ UNCHANGED <<now, events, event_participants, artworks, artwork_interactions,
                       fight_artworks, interactions, artwork_teams>>

NextRev ==
    \/ Next
    \/ \E u \in Users : Navbar_uploadArtwork(u)
    \/ \E u \in Users : handleUploadSuccess(u)

SpecRev == Init /\ [][NextRev]_vars

\* ------------------------------------------------- the award step, re-applied

\* The award step of ArtworkUpload.uploadArtwork (the update_user_points call)
\* applied once more for the artwork the upload has just created.
awardArtworkSubmission(u, a) ==
    /\ last.op = "uploadArtwork" /\ last.user = u /\ last.art = a
    /\ user_points' = update_user_points(user_points, u, UploadReward, 0, 0)
    /\ Report("awardArtworkSubmission", u, a, "awarded")
    /\ UNCHANGED <<now, events, event_participants, artworks, artwork_interactions,
                   fight_artworks, interactions, artwork_teams>>

NextAward ==
    \/ Next
    \/ \E u \in Users, a \in ArtIds : awardArtworkSubmission(u, a)

SpecAward == Init /\ [][NextAward]_vars

\* ------------------------------------------------------ event lifecycle clock

Tick ==
    /\ now < MaxTime
    /\ now' = now + 1
    /\ UNCHANGED <<events, event_participants, artworks, artwork_interactions,
                   fight_artworks, user_points, interactions, artwork_teams,
                   participants, session, last, pre, first, run, ops>>

\* Faulty variant: an event whose start time is exactly now stays upcoming.
StatusAfterStart_Strict(e, t) ==
    IF e.status = "upcoming" /\ e.start_time < t THEN [e EXCEPT !.status = "ongoing"] ELSE e

\* Stored procedure update_event_status: two UPDATE statements in sequence.
StatusAfterStart(e, t) ==
    IF e.status = "upcoming" /\ e.start_time <= t THEN [e EXCEPT !.status = "ongoing"] ELSE e

\* Faulty variant: an event whose end time is exactly now stays ongoing.
StatusAfterEnd_Strict(e, t) ==
    IF e.status = "ongoing" /\ e.end_time < t THEN [e EXCEPT !.status = "ended"] ELSE e

\* Faulty variant: an event past its end time is put back to upcoming.
StatusAfterEnd_Reset(e, t) ==
    IF e.status = "ongoing" /\ e.end_time <= t THEN [e EXCEPT !.status = "upcoming"] ELSE e

StatusAfterEnd(e, t) ==
    IF e.status = "ongoing" /\ e.end_time <= t THEN [e EXCEPT !.status = "ended"] ELSE e

update_event_status ==
    /\ events' = StatusAfterEnd(StatusAfterStart(events, now), now)
    /\ UNCHANGED <<now, event_participants, artworks, artwork_interactions,
                   fight_artworks, user_points, interactions, artwork_teams,
                   participants, session, last, pre, first, run, ops>>

NextClock ==
    \/ Next
    \/ Tick
    \/ update_event_status

SpecClock == Init /\ [][NextClock]_vars

\* ------------------------------------------------------------ the admin page

Themes == {"midway theme"}

\* Admin.updateEventTheme: UPDATE events SET midway_theme, description.
updateEventTheme(newTheme) ==
    /\ events.midway_theme # newTheme
    /\ events' = [events EXCEPT !.midway_theme = newTheme]
    /\ UNCHANGED <<now, event_participants, artworks, artwork_interactions,
                   fight_artworks, user_points, interactions, artwork_teams,
                   participants, session, last, pre, first, run, ops>>

NextAdmin ==
    \/ NextClock
    \/ \E newTheme \in Themes : updateEventTheme(newTheme)

SpecAdmin == Init /\ [][NextAdmin]_vars

\* ------------------------------------- handlers step by step (one step per await)

history == <<last, pre, first, run, ops>>
views == <<artwork_teams, participants>>

\* EventGallery.handleLikeToggle up to and including the delete or insert.
ToggleBegin(u, a) ==
    /\ pc[u] = "idle"
    /\ a \in 1..Len(artworks)
    /\ artworks[a].user_id # u
    /\ ~SameTeam(event_participants[u], artwork_teams[u][a])
    /\ IF <<a, "like">> \in interactions[u]
       THEN /\ artwork_interactions' = DeleteInteraction(artwork_interactions, a, u, "like")
            /\ interactions' = [interactions EXCEPT ![u] = @ \ {<<a, "like">>}]
            /\ loc' = [loc EXCEPT ![u] = [NoLocals EXCEPT !.art = a, !.branch = "unlike"]]
            /\ UNCHANGED artworks
       ELSE /\ ~InteractionConflict(artwork_interactions, a, u, "like")
            /\ artwork_interactions' = artwork_interactions \cup {<<a, u, "like">>}
            /\ artworks' = update_artwork_counts(artworks, a, "like")
            /\ interactions' = [interactions EXCEPT ![u] = @ \cup {<<a, "like">>}]
            /\ loc' = [loc EXCEPT ![u] = [NoLocals EXCEPT !.art = a, !.branch = "like"]]
    /\ pc' = [pc EXCEPT ![u] = "select"]
    /\ UNCHANGED <<now, events, event_participants, fight_artworks, user_points,
                   awarded, history, views>>

\* ... the select of the owner's user_points row
ToggleSelect(u) ==
    /\ pc[u] = "select"
    /\ loc' = [loc EXCEPT ![u].existingPoints =
                   SelectPoints(user_points, artworks[loc[u].art].user_id)]
    /\ pc' = [pc EXCEPT ![u] = "write"]
    /\ UNCHANGED <<now, events, event_participants, artworks, artwork_interactions,
                   fight_artworks, user_points, interactions, awarded, history, views>>

\* ... the upsert (like branch) or update (unlike branch) of that row
ToggleWrite(u) ==
    LET owner == artworks[loc[u].art].user_id
        existingPoints == loc[u].existingPoints
    IN  /\ pc[u] = "write"
        /\ IF loc[u].branch = "like"
           THEN /\ user_points' = UpsertLikePoints(user_points, owner,
                                      existingPoints.like_points + LikeReward,
                                      existingPoints.points_total + LikeReward)
                /\ awarded' = [awarded EXCEPT ![owner].like_points = @ + LikeReward]
           ELSE IF existingPoints.present
                THEN /\ user_points' = UpdateLikePoints(user_points, owner,
                                           Max0(existingPoints.like_points - LikeReward),
                                           Max0(existingPoints.points_total - LikeReward))
                     /\ awarded' = [awarded EXCEPT ![owner].like_points = @ - LikeReward]
                ELSE UNCHANGED <<user_points, awarded>>
        /\ pc' = [pc EXCEPT ![u] = "idle"]
        /\ loc' = [loc EXCEPT ![u] = NoLocals]
        /\ UNCHANGED <<now, events, event_participants, artworks, artwork_interactions,
                       fight_artworks, interactions, history, views>>

\* ArtworkUpload.uploadArtwork up to and including the artworks insert.
UploadInsert(u) ==
    /\ pc[u] = "idle"
    /\ Len(artworks) < MaxArtworks
    /\ artworks' = Append(artworks, NewArtwork(u))
    /\ artwork_teams' = ShowArtwork(artwork_teams, event_participants[u])
    /\ pc' = [pc EXCEPT ![u] = "award"]
    /\ UNCHANGED <<now, events, event_participants, artwork_interactions, fight_artworks,
                   user_points, interactions, participants, loc, awarded, history>>

\* ... the update_user_points call
UploadAward(u) ==
    /\ pc[u] = "award"
    /\ user_points' = update_user_points(user_points, u, UploadReward, 0, 0)
    /\ awarded' = [awarded EXCEPT ![u].artwork_points = @ + UploadReward]
    /\ pc' = [pc EXCEPT ![u] = "idle"]
    /\ UNCHANGED <<now, events, event_participants, artworks, artwork_interactions,
                   fight_artworks, interactions, loc, history, views>>

NextConc ==
    \/ \E u \in Users, a \in ArtIds : ToggleBegin(u, a)
    \/ \E u \in Users : ToggleSelect(u)
    \/ \E u \in Users : ToggleWrite(u)
    \/ \E u \in Users : UploadInsert(u)
    \/ \E u \in Users : UploadAward(u)

SpecConc == Init /\ [][NextConc]_vars

\* The same steps with one handler at a time: a handler starts only when no
\* other is under way.
NextSeq ==
    \/ \E u \in Users, a \in ArtIds :
          (\A v \in Users : pc[v] = "idle") /\ ToggleBegin(u, a)
    \/ \E u \in Users : ToggleSelect(u)
    \/ \E u \in Users : ToggleWrite(u)
    \/ \E u \in Users : (\A v \in Users : pc[v] = "idle") /\ UploadInsert(u)
    \/ \E u \in Users : UploadAward(u)

SpecSeq == Init /\ [][NextSeq]_vars

\* ------------------------------------------------------ the event detail page

\* EventDetail.joinEvent: the team is chosen from the page's `participants`
\* state, the row is inserted, then fetchParticipants reloads that state.
EventDetail_joinEvent(u) ==
    LET teamACounts == TeamCount(participants[u], "A")
        teamBCounts == TeamCount(participants[u], "B")
        assignedTeam == IF teamACounts <= teamBCounts THEN "A" ELSE "B"
        joined == [event_participants EXCEPT ![u] = assignedTeam]
    IN  /\ IF events.status # "upcoming" /\ events.status # "ongoing"
           THEN /\ Record("EventDetail.joinEvent", u, 0, "Cannot join event")
                /\ UNCHANGED <<event_participants, participants>>
           ELSE IF ParticipantConflict(event_participants, u)
                THEN /\ Record("EventDetail.joinEvent", u, 0, "Error")
                     /\ UNCHANGED <<event_participants, participants>>
                ELSE /\ event_participants' = joined
                     /\ participants' = [participants EXCEPT ![u] = joined]
                     /\ Record("EventDetail.joinEvent", u, 0, "Success!")
        /\ UNCHANGED <<now, events, artworks, artwork_interactions, fight_artworks,
                       user_points, interactions, artwork_teams>>

\* EventDetail.fetchParticipants (on mount)
fetchParticipants(u) ==
    /\ participants[u] # event_participants
    /\ participants' = [participants EXCEPT ![u] = event_participants]
    /\ run' = 0
    /\ UNCHANGED <<now, events, event_participants, artworks, artwork_interactions,
                   fight_artworks, user_points, interactions, artwork_teams, session,
                   last, pre, first, ops>>

NextTeams ==
    \/ Next
    \/ \E u \in Users : EventDetail_joinEvent(u)
    \/ \E u \in Users : fetchParticipants(u)

SpecTeams == Init /\ [][NextTeams]_vars

\* --------------------------- Gallery.handleInteraction and its insert, step by step

\* Gallery.handleInteraction up to the insert: the row is written.
GalleryInsert(u, a, t) ==
    /\ pc[u] = "idle"
    /\ a \in 1..Len(artworks)
    /\ <<a, t>> \notin interactions[u]
    /\ ~InteractionConflict(artwork_interactions, a, u, t)
    /\ artwork_interactions' = artwork_interactions \cup {<<a, u, t>>}
    /\ loc' = [loc EXCEPT ![u] = [NoLocals EXCEPT !.art = a, !.branch = t]]
    /\ pc' = [pc EXCEPT ![u] = "trigger"]
    /\ UNCHANGED <<now, events, event_participants, artworks, fight_artworks,
                   user_points, interactions, awarded, history, views>>

\* ... trigger_update_artwork_counts runs for the new row: one UPDATE statement
\* that increments the counter the artworks row holds at that moment.
GalleryTrigger(u) ==
    /\ pc[u] = "trigger"
    /\ artworks' = update_artwork_counts(artworks, loc[u].art, loc[u].branch)
    /\ pc' = [pc EXCEPT ![u] = "inserted"]
    /\ UNCHANGED <<now, events, event_participants, artwork_interactions, fight_artworks,
                   user_points, interactions, loc, awarded, history, views>>

\* ... the insert has returned: local state is updated and "Success!" shown.
GalleryDone(u) ==
    /\ pc[u] = "inserted"
    /\ interactions' = [interactions EXCEPT ![u] = @ \cup {<<loc[u].art, loc[u].branch>>}]
    /\ pc' = [pc EXCEPT ![u] = "idle"]
    /\ loc' = [loc EXCEPT ![u] = NoLocals]
    /\ UNCHANGED <<now, events, event_participants, artworks, artwork_interactions,
                   fight_artworks, user_points, awarded, history, views>>

NextIns ==
    \/ NextConc
    \/ \E u \in Users, a \in ArtIds, t \in Types : GalleryInsert(u, a, t)
    \/ \E u \in Users : GalleryTrigger(u)
    \/ \E u \in Users : GalleryDone(u)

SpecIns == Init /\ [][NextIns]_vars

\* ------------------------------------------- handlers whose point write fails

\* ArtworkUpload.uploadArtwork when the update_user_points call returns an
\* error: the returned error is not read, the success toast follows.
uploadArtwork_pointsError(u) ==
    /\ Len(artworks) < MaxArtworks
    /\ artworks' = Append(artworks, NewArtwork(u))
    /\ artwork_teams' = ShowArtwork(artwork_teams, event_participants[u])
    /\ Report("uploadArtwork, points error", u, Len(artworks) + 1,
              "Artwork uploaded successfully!")
    /\ UNCHANGED <<now, events, event_participants, artwork_interactions,
                   fight_artworks, user_points, interactions>>

\* EventGallery.handleLikeToggle, like branch, when the user_points upsert
\* returns likePointsError: it is logged, the toast is the one of a like.
handleLikeToggle_pointsError(u, a) ==
    /\ a \in 1..Len(artworks)
    /\ artworks[a].user_id # u
    /\ ~SameTeam(event_participants[u], artwork_teams[u][a])
    /\ <<a, "like">> \notin interactions[u]
    /\ ~InteractionConflict(artwork_interactions, a, u, "like")
    /\ artwork_interactions' = artwork_interactions \cup {<<a, u, "like">>}
    /\ artworks' = update_artwork_counts(artworks, a, "like")
    /\ interactions' = [interactions EXCEPT ![u] = @ \cup {<<a, "like">>}]
    /\ Report("handleLikeToggle, points error", u, a, "Congratulations!")
    /\ UNCHANGED <<now, events, event_participants, fight_artworks, user_points,
                   artwork_teams>>

\* AttackDialog.handleAttack when the update_user_points call returns an error:
\* the result of the call is not read.
AttackDialog_handleAttack_pointsError(u, a) ==
    /\ a \in 1..Len(artworks)
    /\ ~InteractionConflict(artwork_interactions, a, u, "attack")
    /\ artwork_interactions' = artwork_interactions \cup {<<a, u, "attack">>}
    /\ artworks' = update_artwork_counts(artworks, a, "attack")
    /\ Report("AttackDialog.handleAttack, points error", u, a, "Attack successful!")
    /\ UNCHANGED <<now, events, event_participants, fight_artworks, user_points,
                   interactions, artwork_teams>>

NextFail ==
    \/ Next
    \/ \E u \in Users : uploadArtwork_pointsError(u)
    \/ \E u \in Users, a \in ArtIds : handleLikeToggle_pointsError(u, a)
    \/ \E u \in Users, a \in ArtIds : AttackDialog_handleAttack_pointsError(u, a)

SpecFail == Init /\ [][NextFail]_vars

\* ------------------------------------------------------------- team scores

\* userPoints?.points_total || 0
PointsOrZero(data, u) == IF data[u].present THEN data[u].points_total ELSE 0

NoScores == [A |-> [totalPoints |-> 0, memberCount |-> 0],
             B |-> [totalPoints |-> 0, memberCount |-> 0]]

\* Faulty variant: rows of users who are not participants are counted for team B.
TeamScoresUpTo_AllRows(data, parts, n) ==
    LET Step[k \in 0..n] ==
            IF k = 0 THEN NoScores
            ELSE IF parts[k] = "A"
                 THEN [Step[k - 1] EXCEPT !.A.totalPoints = @ + PointsOrZero(data, k),
                                          !.A.memberCount = @ + 1]
                 ELSE [Step[k - 1] EXCEPT !.B.totalPoints = @ + PointsOrZero(data, k),
                                          !.B.memberCount = @ + 1]
    IN  Step[n]

\* EventGallery.fetchTeamScores: the forEach over the event_participants rows,
\* here the rows of users 1..n in turn.
TeamScoresUpTo(data, parts, n) ==
    LET Step[k \in 0..n] ==
            IF k = 0 THEN NoScores
            ELSE IF parts[k] = "none" THEN Step[k - 1]
            ELSE IF parts[k] = "A"
                 THEN [Step[k - 1] EXCEPT !.A.totalPoints = @ + PointsOrZero(data, k),
                                          !.A.memberCount = @ + 1]
                 ELSE [Step[k - 1] EXCEPT !.B.totalPoints = @ + PointsOrZero(data, k),
                                          !.B.memberCount = @ + 1]
    IN  Step[n]

fetchTeamScores(data, parts) == TeamScoresUpTo(data, parts, NumUsers)

\* EventDetail.fetchTeamPoints: the same loop keeping the two totals only.
fetchTeamPoints(userPoints, parts) ==
    LET Step[k \in 0..NumUsers] ==
            IF k = 0 THEN [teamA |-> 0, teamB |-> 0]
            ELSE IF parts[k] = "none" THEN Step[k - 1]
            ELSE IF parts[k] = "A"
                 THEN [Step[k - 1] EXCEPT !.teamA = @ + PointsOrZero(userPoints, k)]
                 ELSE [Step[k - 1] EXCEPT !.teamB = @ + PointsOrZero(userPoints, k)]
    IN  Step[NumUsers]

\* ------------------------------------------- event lifecycle, any schedule

\* Admin.createEvent: the event is inserted with status 'upcoming' and the
\* start and end times of the form; the schedules have start_time < end_time.
Schedules ==
    {ev \in [status : {"upcoming"}, start_time : 0..MaxTime, end_time : 0..MaxTime,
             midway_time : {NULL}, midway_theme : {NULL}] :
        ev.start_time < ev.end_time}

InitLife ==
    /\ now = 0
    /\ events \in Schedules
    /\ event_participants = [u \in Users |-> "none"]
    /\ artworks = <<>>
    /\ artwork_interactions = {}
    /\ fight_artworks = {}
    /\ user_points = [u \in Users |-> NoRow]
    /\ interactions = [u \in Users |-> {}]
    /\ artwork_teams = [u \in Users |-> <<>>]
    /\ participants = [u \in Users |-> [v \in Users |-> "none"]]
    /\ pc = [u \in Users |-> "idle"]
    /\ loc = [u \in Users |-> NoLocals]
    /\ awarded = [u \in Users |-> NoDeltas]
    /\ last = [op |-> "none", user |-> 0, art |-> 0, outcome |-> "none"]
    /\ pre = Snapshot
    /\ first = Snapshot
    /\ run = 0
    /\ ops = 0

\* Faulty variant: the second UPDATE does not see the rows the first one changed.
update_event_status_recorded_Stale ==
    /\ events' = IF events.status = "upcoming"
                 THEN StatusAfterStart(events, now)
                 ELSE StatusAfterEnd(events, now)
    /\ Report("update_event_status", 0, 0, "void")
    /\ UNCHANGED <<now, store, interactions, artwork_teams>>

\* A call of the stored procedure update_event_status that the history
\* variables record: the status and the clock the call started from.
update_event_status_recorded ==
    /\ events' = StatusAfterEnd(StatusAfterStart(events, now), now)
    /\ Report("update_event_status", 0, 0, "void")
    /\ UNCHANGED <<now, store, interactions, artwork_teams>>

NextLife ==
    \/ Tick
    \/ update_event_status_recorded
    \/ \E u \in Users : joinEvent(u)

SpecLife == InitLife /\ [][NextLife]_vars

\* The lifecycle with the procedure invoked again and again and a clock that
\* keeps advancing: both are weakly fair.
NextLive ==
    \/ NextLife
    \/ update_event_status

SpecLive ==
    /\ InitLife
    /\ [][NextLive]_vars
    /\ WF_vars(Tick)
    /\ WF_vars(update_event_status)

\* ================================================================ claims

LikeRows(rows, a) == {r \in rows : r[1] = a /\ r[3] = "like"}

SumOfComponents(row) == row.artwork_points + row.like_points + row.attack_points

\* C1: after any sequence of completed, non-interleaved scoring operations,
\* every user_points row has points_total = artwork_points + like_points +
\* attack_points.
C1_TotalIsSum ==
    \A u \in Users :
        user_points[u].present =>
            user_points[u].points_total = SumOfComponents(user_points[u])

\* C2: once every handler that ran with its reads and writes interleaved has
\* completed, each user_points row holds the sum of the deltas the handlers
\* applied: no update is lost.
C2_NoLostUpdate ==
    (\A v \in Users : pc[v] = "idle") =>
        \A u \in Users :
            /\ user_points[u].artwork_points = awarded[u].artwork_points
            /\ user_points[u].like_points = awarded[u].like_points
            /\ user_points[u].points_total =
                   awarded[u].artwork_points + awarded[u].like_points

\* C3: each artwork's stored likes_count equals the number of like rows of
\* artwork_interactions that reference it, after any sequence of like inserts
\* and unlike calls.
C3_LikesCountMatchesRows ==
    \A a \in 1..Len(artworks) :
        artworks[a].likes_count = Cardinality(LikeRows(artwork_interactions, a))

\* C3 witness: an unlike call has completed on an artwork that had been liked.
C3_Witness ==
    /\ last.op = "handleLikeToggle"
    /\ last.outcome = "Unliked"
    /\ pre.artworks[last.art].likes_count >= 1

\* C4: two consecutive handleLikeToggle calls by the same eligible user on the
\* same artwork, starting without a like row, restore likes_count and the owner's
\* like_points and points_total, and leave no like row.
C4_ToggleSymmetry ==
    ( /\ last.op = "handleLikeToggle"
      /\ run = 2
      /\ last.outcome # "Not allowed"
      /\ <<last.art, last.user, "like">> \notin first.artwork_interactions )
    =>
    LET a == last.art
        owner == artworks[a].user_id
    IN  /\ artworks[a].likes_count = first.artworks[a].likes_count
        /\ user_points[owner].like_points = first.user_points[owner].like_points
        /\ user_points[owner].points_total = first.user_points[owner].points_total
        /\ <<a, last.user, "like">> \notin artwork_interactions

\* C5: in AttackDialog.handleAttack an attack on an artwork the user already
\* has an attack row for is reported as failed and awards nothing: the
\* attacker's row and the artwork's attacks_count are as before the attempt.
C5_SecondAttackRejected ==
    ( /\ last.op = "AttackDialog.handleAttack"
      /\ <<last.art, last.user, "attack">> \in pre.artwork_interactions )
    =>
    /\ last.outcome = "Attack failed"
    /\ user_points[last.user] = pre.user_points[last.user]
    /\ artworks[last.art].attacks_count = pre.artworks[last.art].attacks_count
    /\ artwork_interactions = pre.artwork_interactions

\* C5 witness: the same user has called AttackDialog.handleAttack on the same
\* artwork twice in a row, the first attack having succeeded.
C5_Witness ==
    /\ last.op = "AttackDialog.handleAttack"
    /\ run = 2
    /\ <<last.art, last.user, "attack">> \notin first.artwork_interactions
    /\ <<last.art, last.user, "attack">> \in pre.artwork_interactions

\* C6: on the counter-artwork path a user who has already completed an attack
\* on an artwork is rejected as already attacked, and the attempt leaves the
\* attacker's attack_points and points_total unchanged.
C6_SecondCounterAttackRejected ==
    ( /\ last.op = "AttackArtworkDialog.handleAttack"
      /\ \E f \in pre.fight_artworks :
            f.attacker_id = last.user /\ f.target_artwork_id = last.art )
    =>
    /\ last.outcome = "Already attacked"
    /\ user_points[last.user].attack_points = pre.user_points[last.user].attack_points
    /\ user_points[last.user].points_total = pre.user_points[last.user].points_total

SubmissionReward(op) ==
    IF op = "uploadArtwork" THEN UploadReward ELSE LegacyUploadReward

\* C7: every artwork-submission award made for a user who already has a
\* user_points row adds the submission reward to artwork_points and to
\* points_total and leaves like_points and attack_points as they were.
C7_UploadAwardAdditive ==
    ( /\ last.op \in {"uploadArtwork", "Navbar.uploadArtwork", "handleUploadSuccess"}
      /\ pre.user_points[last.user].present )
    =>
    LET before == pre.user_points[last.user]
        after == user_points[last.user]
    IN  /\ after.artwork_points = before.artwork_points + SubmissionReward(last.op)
        /\ after.points_total = before.points_total + SubmissionReward(last.op)
        /\ after.like_points = before.like_points
        /\ after.attack_points = before.attack_points

\* C8: applying the award step a second time for the same artwork leaves the
\* owner's artwork_points at the value it had after the first application.
C8_AwardIdempotent ==
    last.op = "awardArtworkSubmission" =>
        user_points[last.user].artwork_points =
            pre.user_points[last.user].artwork_points

\* C9: likes_count, attacks_count and the four point fields of every row are
\* never below 0, whatever the order of uploads, likes, unlikes and attacks.
C9_NonNegative ==
    /\ \A a \in 1..Len(artworks) :
          artworks[a].likes_count >= 0 /\ artworks[a].attacks_count >= 0
    /\ \A u \in Users :
          /\ user_points[u].artwork_points >= 0
          /\ user_points[u].like_points >= 0
          /\ user_points[u].attack_points >= 0
          /\ user_points[u].points_total >= 0

\* C9 witness: an unlike has run against an owner whose row held no like points.
C9_Witness ==
    /\ last.op = "handleLikeToggle"
    /\ last.outcome = "Unliked"
    /\ pre.user_points[artworks[last.art].user_id].present
    /\ pre.user_points[artworks[last.art].user_id].like_points = 0

InteractionOps ==
    {"handleLikeToggle", "handleInteraction", "AttackDialog.handleAttack",
     "AttackArtworkDialog.handleAttack"}

\* C10: a like or attack handler called while the event is upcoming or ended
\* changes no interaction row, fight artwork, artwork counter or user_points
\* row; and no call made while the event is ended changes a user_points row.
C10_OnlyOngoing ==
    /\ (last.op \in InteractionOps /\ pre.status # "ongoing") =>
           /\ artwork_interactions = pre.artwork_interactions
           /\ fight_artworks = pre.fight_artworks
           /\ artworks = pre.artworks
           /\ user_points = pre.user_points
    /\ (last.op # "none" /\ pre.status = "ended") => user_points = pre.user_points

\* C11: no artwork_interactions row, like or attack, has the owner of the
\* artwork it references as its user_id.
C11_NoSelfInteraction ==
    \A r \in artwork_interactions : r[2] # artworks[r[1]].user_id

\* The acting user and the owner both have an event_participants row and the
\* teams are equal.
BothOnOneTeam(parts, u, owner) ==
    parts[u] # "none" /\ parts[owner] # "none" /\ parts[u] = parts[owner]

\* C12: for a user acting on another user's artwork, handleLikeToggle and
\* handleAttackClick refuse with "Not allowed" exactly when the user and the
\* owner both have a team and the teams are equal, and a refusal changes nothing.
C12_CrossTeamOnly ==
    ( /\ last.op \in {"handleLikeToggle", "AttackArtworkDialog.handleAttack"}
      /\ artworks[last.art].user_id # last.user )
    =>
    /\ (last.outcome = "Not allowed") <=>
           BothOnOneTeam(pre.event_participants, last.user, artworks[last.art].user_id)
    /\ last.outcome = "Not allowed" =>
           /\ artwork_interactions = pre.artwork_interactions
           /\ fight_artworks = pre.fight_artworks
           /\ user_points = pre.user_points

\* C13: an upload creates its artworks row and awards its points only from a
\* state where canUploadArtwork holds for the uploader: status ongoing, an
\* event_participants row, and midway_time null or not later than now.
C13_UploadOnlyWhenAllowed ==
    last.op = "uploadArtwork" =>
        canUploadArtwork([events EXCEPT !.status = pre.status],
                         pre.event_participants[last.user], pre.now)

\* What each handler reports when the primary row and the points were both written.
FullSuccessOutcomes ==
    {"Artwork uploaded successfully!", "Congratulations!", "Attack successful!"}

\* C14: when the primary row was created and the point write then failed, the
\* handler reports something other than what it reports on full success.
C14_PartialSuccessReported ==
    last.op \in {"uploadArtwork, points error", "handleLikeToggle, points error",
                 "AttackDialog.handleAttack, points error"}
    => last.outcome \notin FullSuccessOutcomes

Members(parts, t) == {u \in Users : parts[u] = t}

RECURSIVE SumOfTotals(_, _)
SumOfTotals(S, up) ==
    IF S = {} THEN 0
    ELSE LET u == CHOOSE x \in S : TRUE
         IN  (IF up[u].present THEN up[u].points_total ELSE 0)
                 + SumOfTotals(S \ {u}, up)

\* C15: in every store state fetchTeamScores and fetchTeamPoints give each team
\* the sum of points_total over exactly that team's event_participants rows (0
\* for a participant without a user_points row, nothing for rows of users who
\* are not participants), and memberCount is the number of those rows.
C15_TeamScoresAreParticipantSums ==
    LET scores == fetchTeamScores(user_points, event_participants)
        points == fetchTeamPoints(user_points, event_participants)
    IN  /\ \A t \in {"A", "B"} :
              /\ scores[t].totalPoints =
                     SumOfTotals(Members(event_participants, t), user_points)
              /\ scores[t].memberCount =
                     Cardinality(Members(event_participants, t))
        /\ points.teamA = SumOfTotals(Members(event_participants, "A"), user_points)
        /\ points.teamB = SumOfTotals(Members(event_participants, "B"), user_points)

\* C15 witness: a participant with points, next to a user who has points but
\* no event_participants row.
C15_Witness ==
    /\ \E u \in Users : event_participants[u] # "none" /\ user_points[u].points_total > 0
    /\ \E u \in Users : event_participants[u] = "none" /\ user_points[u].points_total > 0

AttackRows(rows, a) == {r \in rows : r[1] = a /\ r[3] = "attack"}

\* C16: each artwork's stored attacks_count equals the number of attack rows of
\* artwork_interactions that reference it, after any sequence of attacks made
\* through AttackDialog, Gallery and AttackArtworkDialog.
C16_AttacksCountMatchesRows ==
    \A a \in 1..Len(artworks) :
        artworks[a].attacks_count = Cardinality(AttackRows(artwork_interactions, a))

\* C16 witness: an artwork that holds an attack row has also been attacked
\* through AttackArtworkDialog.
C16_Witness ==
    \E a \in 1..Len(artworks) :
        /\ AttackRows(artwork_interactions, a) # {}
        /\ \E f \in fight_artworks : f.target_artwork_id = a

\* C17: after a successful AttackArtworkDialog.handleAttack an attack row exists
\* for (target artwork, attacker) and the artwork's attacks_count is 1 higher
\* than before the attack.
C17_CounterAttackRecorded ==
    ( /\ last.op = "AttackArtworkDialog.handleAttack"
      /\ last.outcome = "Congratulations!" )
    =>
    /\ <<last.art, last.user, "attack">> \in artwork_interactions
    /\ artworks[last.art].attacks_count = pre.artworks[last.art].attacks_count + 1

\* C18: a successful attack raises the attacker's attack_points and points_total
\* by the same positive amount, leaves the attacker's artwork_points and
\* like_points alone and changes no other user's row.
C18_AttackFrame ==
    ( \/ last.op = "AttackDialog.handleAttack" /\ last.outcome = "Attack successful!"
      \/ last.op = "AttackArtworkDialog.handleAttack" /\ last.outcome = "Congratulations!" )
    =>
    LET before == pre.user_points[last.user]
        after == user_points[last.user]
    IN  /\ after.attack_points > before.attack_points
        /\ after.attack_points - before.attack_points
               = after.points_total - before.points_total
        /\ after.artwork_points = before.artwork_points
        /\ after.like_points = before.like_points
        /\ \A v \in Users \ {last.user} : user_points[v] = pre.user_points[v]

\* C19: once every insert made while others were under way has completed, each
\* artwork's likes_count and attacks_count equal the number of rows inserted for
\* it: k inserts by k users raise the counter by exactly k.
C19_NoLostIncrement ==
    (\A v \in Users : pc[v] = "idle") =>
        \A a \in 1..Len(artworks) :
            /\ artworks[a].likes_count = Cardinality(LikeRows(artwork_interactions, a))
            /\ artworks[a].attacks_count = Cardinality(AttackRows(artwork_interactions, a))

\* C19 witness: two users have each inserted a row of the same type for the same
\* artwork and neither insert's trigger has run yet.
C19_Witness ==
    \E u, v \in Users :
        /\ u # v
        /\ pc[u] = "trigger" /\ pc[v] = "trigger"
        /\ loc[u].art = loc[v].art
        /\ loc[u].branch = loc[v].branch

StatusRank(status) ==
    IF status = "upcoming" THEN 0 ELSE IF status = "ongoing" THEN 1 ELSE 2

\* C20: no step of the system moves the event's status backwards in the order
\* upcoming, ongoing, ended.
C20_StatusMonotonic ==
    [][StatusRank(events'.status) >= StatusRank(events.status)]_vars

\* C20 witness: the event has gone through to ended and its theme was updated.
C20_Witness ==
    events.status = "ended" /\ events.midway_theme # NULL

\* The status the clock gives an event: upcoming before start_time, ongoing
\* from start_time until end_time, ended from end_time on.
StatusByClock(e, t) ==
    IF t < e.start_time THEN "upcoming"
    ELSE IF t < e.end_time THEN "ongoing"
    ELSE "ended"

\* C21: when update_event_status completes at time now, the status of an event
\* created upcoming with start_time < end_time is the one the clock gives:
\* upcoming iff now < start_time, ongoing iff start_time <= now < end_time,
\* ended iff now >= end_time; an upcoming event whose end_time has passed is
\* ended after a single call.
C21_StatusFollowsClock ==
    (last.op = "update_event_status" /\ now = pre.now) =>
        events.status = StatusByClock(events, now)

\* C21 witness: a single call took an upcoming event whose end_time had passed
\* to ended.
C21_Witness ==
    /\ last.op = "update_event_status"
    /\ now = pre.now
    /\ pre.status = "upcoming"
    /\ events.end_time <= pre.now
    /\ events.status = "ended"

\* C22: update_event_status is idempotent: a second call at the same now leaves
\* the event as the first call left it; and a call at any time leaves an event
\* that is already ended unchanged.
C22_Idempotent ==
    last.op = "update_event_status" =>
        /\ (run >= 2 /\ first.now = pre.now) => events.status = pre.status
        /\ pre.status = "ended" => events.status = "ended"

\* C22 witness: two calls in a row at the same now, the first of which changed
\* the status.
C22_Witness ==
    /\ last.op = "update_event_status"
    /\ run = 2
    /\ first.now = pre.now
    /\ first.status # pre.status

\* count(A) - count(B) over the event_participants rows.
TeamLead(parts) == Cardinality(Members(parts, "A")) - Cardinality(Members(parts, "B"))

\* C23: when joins run one at a time, Events.joinEvent assigns team A iff
\* count(A) <= count(B) at that moment and team B otherwise, so that
\* 0 <= count(A) - count(B) <= 1 always.
C23_BalancedAssignment ==
    /\ TeamLead(event_participants) \in {0, 1}
    /\ (last.op = "joinEvent" /\ last.outcome = "Successfully joined event!") =>
           event_participants[last.user] =
               IF TeamLead(pre.event_participants) <= 0 THEN "A" ELSE "B"

\* C23 witness: a join was assigned team B because team A was ahead.
C23_Witness ==
    /\ last.op = "joinEvent"
    /\ last.outcome = "Successfully joined event!"
    /\ TeamLead(pre.event_participants) = 1
    /\ event_participants[last.user] = "B"

JoinOps == {"joinEvent", "EventDetail.joinEvent"}
JoinRefusals == {"Error joining event", "Error", "Cannot join event"}

\* C24: a user has at most one event_participants row of the event; a join by
\* a user who already participates fails and leaves the row as it was; and no
\* handler changes the team of an existing row.
C24_OneRowPerParticipant ==
    /\ \A u \in Users :
           pre.event_participants[u] # "none" =>
               event_participants[u] = pre.event_participants[u]
    /\ (last.op \in JoinOps /\ pre.event_participants[last.user] # "none") =>
           /\ last.outcome \in JoinRefusals
           /\ event_participants = pre.event_participants

\* C24 witness: a participant on team B called joinEvent again while team A
\* had no lead, and was refused.
C24_Witness ==
    /\ last.op \in JoinOps
    /\ pre.event_participants[last.user] = "B"
    /\ last.outcome \in {"Error joining event", "Error"}

\* C25: team balance under interleaving: whether joins go through
\* Events.joinEvent or through EventDetail.joinEvent deciding from the
\* participant list the page loaded earlier, 0 <= count(A) - count(B) <= 1 in
\* every reachable state.
C25_BalancedUnderInterleaving ==
    LET lead == TeamLead(event_participants)
    IN  0 <= lead /\ lead <= 1

\* The like rows that reference artworks of user u.
LikesReceived(rows, arts, u) ==
    {r \in rows : r[3] = "like" /\ r[1] \in 1..Len(arts) /\ arts[r[1]].user_id = u}

\* C26: like points are conserved: each user's like_points (0 when the user has
\* no user_points row) equals the number of like rows that reference that
\* user's artworks, whichever page created the like.
C26_LikePointsConserved ==
    \A u \in Users :
        user_points[u].like_points =
            Cardinality(LikesReceived(artwork_interactions, artworks, u))

\* C27: a successful AttackArtworkDialog.handleAttack (the fight_artworks
\* insert followed by the update_user_points call) raises the attacker's
\* attack_points and points_total by exactly 3, the amount the dialog announces.
C27_FightAttackWorthThree ==
    (last.op = "AttackArtworkDialog.handleAttack" /\ last.outcome = "Congratulations!") =>
        /\ user_points[last.user].attack_points =
               pre.user_points[last.user].attack_points + AttackReward
        /\ user_points[last.user].points_total =
               pre.user_points[last.user].points_total + AttackReward

\* C28: under the row-level security policies of artwork_interactions, when the
\* unlike branch of handleLikeToggle completes and reports that the artwork was
\* unliked, no like row for (artwork, user) remains, so that the next
\* handleLikeToggle by the same user inserts a new like row and succeeds.
C28_UnlikeRemovesRow ==
    last.op = "handleLikeToggle" =>
        /\ last.outcome = "Unliked" =>
               <<last.art, last.user, "like">> \notin artwork_interactions
        /\ (run = 3 /\ last.outcome # "Not allowed"
                /\ <<last.art, last.user, "like">> \notin first.artwork_interactions) =>
               /\ last.outcome = "Congratulations!"
               /\ <<last.art, last.user, "like">> \in artwork_interactions

\* C29: users manage only their own points: no request made under the identity
\* of user X (a write to user_points admitted by its row-level policies, or a
\* call of update_user_points) creates or changes the user_points row of a
\* different user Y.
C29_OwnPointsOnly ==
    last.user \in Users =>
        \A y \in Users \ {last.user} : user_points[y] = pre.user_points[y]

\* C30: if update_event_status keeps being invoked while the clock advances
\* past the event's start_time and end_time, the event eventually has status
\* ended and keeps it forever.
C30_EventuallyEnded ==
    <>[](events.status = "ended")

\* C30 witness: the clock has passed the end time and calls of the procedure
\* alone have taken the event to ended.
C30_Witness ==
    /\ events.status = "ended"
    /\ now >= events.end_time
    /\ last.op = "none"

====
